---- MODULE Spec2Model ----
(***************************************************************************)
(* Walmart MCP server: the dispatcher call_tool (server.py), the three     *)
(* search tools (tools/search.py) and the credential lookup                *)
(* (tools/base.py).                                                        *)
(*                                                                         *)
(* Conventions.                                                            *)
(*  - A Python str that is built by an f-string is a sequence of string    *)
(*    fragments (a Text); concatenation is \o.  "Text a contains text b"   *)
(*    is "b is a contiguous run of a's fragments".                         *)
(*  - A Python value passed as an argument is a tagged record (Val).       *)
(*  - A Python dict with str keys is a function from the keys it holds     *)
(*    (the argument mapping, the query parameters, the headers), or, where *)
(*    the order of the members matters (a decoded JSON object), a sequence *)
(*    of <<name, value>> members with distinct names.                      *)
(*  - A JSON text is [indent, members]: the members in the order they are  *)
(*    written, repeated names included, and the indentation it is written  *)
(*    with.                                                                *)
(*  - An optional value (None or a value) is a sequence of length <= 1.    *)
(*  - Only the error- and warning-level log records are kept, per          *)
(*    invocation.                                                          *)
(***************************************************************************)
EXTENDS Integers, Sequences, FiniteSets, TLC

\* The number of invocations the server may have in flight together.
NumInv == 2

Inv == 1..NumInv

----------------------------------------------------------------------------
\* Python values

S(s) == [t |-> "str", s |-> s, n |-> 0]
I(n) == [t |-> "int", s |-> "", n |-> n]
F(n) == [t |-> "float", s |-> "", n |-> n]
B(b) == [t |-> "bool", s |-> "", n |-> IF b THEN 1 ELSE 0]
NoneVal == [t |-> "none", s |-> "", n |-> 0]

Truthy(v) == IF v.t = "str" THEN v.s # "" ELSE IF v.t = "none" THEN FALSE ELSE v.n # 0

Fmt(v) == IF v.t = "str" THEN v.s ELSE IF v.t = "none" THEN "None" ELSE ToString(v.n)

EmptyDict == [k \in {} |-> NoneVal]

Contains(text, part) ==
    /\ Len(part) > 0
    /\ \E k \in 1..Len(text) : k + Len(part) - 1 <= Len(text)
                               /\ SubSeq(text, k, k + Len(part) - 1) = part

Min(a, b) == IF a < b THEN a ELSE b

----------------------------------------------------------------------------
\* tools/base.py: the credential lookup

\* an optional str: the context variable (unset = LookupError on get) and
\* os.getenv (unset = None)
Unset == [set |-> FALSE, val |-> ""]
Str(s) == [set |-> TRUE, val |-> s]

NoTokenError == [type |-> "RuntimeError",
                 text |-> <<"No Walmart auth token found in context or environment">>]

GetAuthTokenEnvFirst(c, e) ==
    IF e.set /\ e.val # ""
    THEN [ok |-> TRUE, token |-> e.val]
    ELSE IF c.set /\ c.val # ""
    THEN [ok |-> TRUE, token |-> c.val]
    ELSE [ok |-> FALSE, token |-> ""]

\* get_auth_token: c is auth_token_context of the running invocation, e is
\* os.getenv("WALMART_API_KEY"); ok = FALSE is the RuntimeError
GetAuthToken(c, e) ==
    IF c.set
    THEN IF c.val = ""
         THEN IF ~e.set \/ e.val = ""
              THEN [ok |-> FALSE, token |-> ""]
              ELSE [ok |-> TRUE, token |-> e.val]
         ELSE [ok |-> TRUE, token |-> c.val]
    ELSE IF ~e.set \/ e.val = ""
         THEN [ok |-> FALSE, token |-> ""]
         ELSE [ok |-> TRUE, token |-> e.val]

\* get_walmart_client: the token, or None when get_auth_token raised
GetWalmartClient(c, e) ==
    LET r == GetAuthToken(c, e)
    IN  IF r.ok THEN Str(r.token) ELSE Unset

\* the warning get_walmart_client logs when get_auth_token raised
ClientWarning == <<"Failed to get Walmart auth token: ">> \o NoTokenError.text

NotTokenNever(tok) == FALSE

\* `if not token:` in the three tools
NotToken(tok) == ~tok.set \/ tok.val = ""

MissingTokenMessage == <<"Missing Walmart API token">>

MissingTokenLog == <<"Could not get Walmart API token">>

----------------------------------------------------------------------------
\* server.py: the operations call_tool knows, and the binding of **arguments

ProductSearch == "walmart_product_search"
StoreSearch == "walmart_store_search"
CategorySearch == "walmart_category_search"

Registered == {ProductSearch, StoreSearch, CategorySearch}

\* the parameters of each tool function
Params(name) ==
    IF name = ProductSearch
    THEN {"query", "limit", "offset", "sort", "min_price", "max_price",
          "in_stock", "category_id"}
    ELSE IF name = StoreSearch
    THEN {"location", "radius", "limit"}
    ELSE {"query", "parent_id", "limit"}

\* the parameters with no default
Required(name) ==
    IF name = ProductSearch THEN {"query"}
    ELSE IF name = StoreSearch THEN {"location"}
    ELSE {}

\* tool(**arguments): the TypeError of a call that does not match the
\* signature (an unexpected name is reported before a missing one), or none
BindFault(name, args) ==
    LET unexpected == (DOMAIN args) \ Params(name)
        missing == Required(name) \ (DOMAIN args)
    IN  IF unexpected # {}
        THEN << [type |-> "TypeError",
                 text |-> <<name, "() got an unexpected keyword argument ",
                            CHOOSE k \in unexpected : TRUE>>] >>
        ELSE IF missing # {}
        THEN << [type |-> "TypeError",
                 text |-> <<name, "() missing 1 required positional argument: ",
                            CHOOSE k \in missing : TRUE>>] >>
        ELSE << >>

UnknownToolErrorGeneric(name) ==
    [type |-> "ValueError", text |-> <<"Unknown tool">>]

\* raise ValueError(f"Unknown tool: {name}")
UnknownToolError(name) ==
    [type |-> "ValueError", text |-> <<"Unknown tool: ", name>>]

\* an argument of the call, or the default of the parameter
Arg(args, k, default) == IF k \in DOMAIN args THEN args[k] ELSE default

----------------------------------------------------------------------------
\* tools/search.py: the outbound request of each tool

ProductCap == 50
StoreCap == 20
CategoryCap == 50
ProductDefaultLimit == 10
StoreDefaultLimit == 10
CategoryDefaultLimit == 20
DefaultRadius == 25
DefaultOffset == 0

ClampLimitNone(limit, cap) == limit

\* min(limit, cap) of an int limit
ClampLimit(limit, cap) == Min(limit, cap)

\* min(limit, cap) raises for a limit that does not compare with an int
MinFault(limit) ==
    IF limit.t \in {"int", "float", "bool"}
    THEN << >>
    ELSE << [type |-> "TypeError",
             text |-> <<"'<' not supported between instances of 'int' and '",
                        limit.t, "'">>] >>

Headers(token) ==
    [Accept |-> "application/json",
     AccessToken |-> token,
     CorrelationId |-> "walmart-mcp-server"]

When(cond, k, v) == IF cond THEN k :> v ELSE EmptyDict

ProductUrl == <<"https://api.walmart.com/v3/items/search">>
StoreUrl == <<"https://api.walmart.com/v3/stores">>
CategoriesUrl == <<"https://api.walmart.com/v3/items/categories">>

CategoryUrlFlat(parent_id) == CategoriesUrl

\* the endpoint of walmart_category_search
CategoryUrl(parent_id) ==
    IF Truthy(parent_id)
    THEN <<"https://api.walmart.com/v3/items/categories/", Fmt(parent_id)>>
    ELSE CategoriesUrl

ProductRequest(args, token) ==
    LET query == Arg(args, "query", NoneVal)
        limit == Arg(args, "limit", I(ProductDefaultLimit))
        offset == Arg(args, "offset", I(DefaultOffset))
        sort == Arg(args, "sort", S("relevance"))
        min_price == Arg(args, "min_price", NoneVal)
        max_price == Arg(args, "max_price", NoneVal)
        in_stock == Arg(args, "in_stock", NoneVal)
        category_id == Arg(args, "category_id", NoneVal)
    IN  [url |-> ProductUrl,
         headers |-> Headers(token),
         params |-> ("query" :> query)
                    @@ ("limit" :> [limit EXCEPT !.n = ClampLimit(limit.n, ProductCap)])
                    @@ ("offset" :> offset)
                    @@ When(Truthy(sort) /\ sort # S("relevance"), "sort", sort)
                    @@ When(min_price # NoneVal, "minPrice", min_price)
                    @@ When(max_price # NoneVal, "maxPrice", max_price)
                    @@ When(in_stock # NoneVal, "inStock", in_stock)
                    @@ When(Truthy(category_id), "categoryId", category_id)]

StoreRequest(args, token) ==
    LET location == Arg(args, "location", NoneVal)
        radius == Arg(args, "radius", I(DefaultRadius))
        limit == Arg(args, "limit", I(StoreDefaultLimit))
    IN  [url |-> StoreUrl,
         headers |-> Headers(token),
         params |-> ("location" :> location)
                    @@ ("radius" :> radius)
                    @@ ("limit" :> [limit EXCEPT !.n = ClampLimit(limit.n, StoreCap)])]

CategoryRequest(args, token) ==
    LET query == Arg(args, "query", NoneVal)
        parent_id == Arg(args, "parent_id", NoneVal)
        limit == Arg(args, "limit", I(CategoryDefaultLimit))
    IN  [url |-> CategoryUrl(parent_id),
         headers |-> Headers(token),
         params |-> ("limit" :> [limit EXCEPT !.n = ClampLimit(limit.n, CategoryCap)])
                    @@ When(Truthy(query), "query", query)]

\* the limit parameter of the tool, as the call binds it
LimitOf(name, args) ==
    Arg(args, "limit",
        IF name = ProductSearch THEN I(ProductDefaultLimit)
        ELSE IF name = StoreSearch THEN I(StoreDefaultLimit)
        ELSE I(CategoryDefaultLimit))

BuildRequest(name, args, token) ==
    IF name = ProductSearch THEN ProductRequest(args, token)
    ELSE IF name = StoreSearch THEN StoreRequest(args, token)
    ELSE CategoryRequest(args, token)

----------------------------------------------------------------------------
\* JSON: response.json() and json.dumps

DictSetFirstWins(d, k, v) ==
    IF \E j \in 1..Len(d) : d[j][1] = k THEN d ELSE Append(d, <<k, v>>)

\* d[k] = v on a dict that keeps insertion order: a name already present keeps
\* its place and takes the new value
DictSet(d, k, v) ==
    IF \E j \in 1..Len(d) : d[j][1] = k
    THEN [j \in 1..Len(d) |-> IF d[j][1] = k THEN <<k, v>> ELSE d[j]]
    ELSE Append(d, <<k, v>>)

RECURSIVE LoadsFrom(_, _)
LoadsFrom(d, members) ==
    IF members = << >>
    THEN d
    ELSE LoadsFrom(DictSet(d, Head(members)[1], Head(members)[2]), Tail(members))

\* response.json(): the dict decoded from the members of a JSON object text
Loads(text) == LoadsFrom(<< >>, text.members)

DumpsIndent == 2

\* json.dumps(result, indent=2)
Dumps(d) == [indent |-> DumpsIndent, members |-> d]

\* {"error": msg}
ErrorDict(msg) == << <<"error", msg>> >>

----------------------------------------------------------------------------
\* tools/search.py: what each tool makes of the outcome of requests.get

OpWord(name) ==
    IF name = ProductSearch THEN "product"
    ELSE IF name = StoreSearch THEN "store"
    ELSE "category"

TransportMessageRaw(name, args, e) ==
    <<"Could not complete Walmart ", OpWord(name), " search: ">> \o e.text

\* the message returned by `except requests.exceptions.RequestException`
TransportMessage(name, args, e) ==
    IF name = ProductSearch
    THEN <<"Could not complete Walmart product search for query: ", Fmt(args["query"])>>
    ELSE IF name = StoreSearch
    THEN <<"Could not complete Walmart store search for location: ", Fmt(args["location"])>>
    ELSE <<"Could not complete Walmart category search">>

TransportLog(name, e) == <<"Walmart ", OpWord(name), " search failed: ">> \o e.text

UnexpectedMessageGeneric(name, e) ==
    <<"Unexpected error in Walmart ", OpWord(name), " search">>

\* the message returned by `except Exception` in a tool; the same text is logged
UnexpectedMessage(name, e) ==
    <<"Unexpected error in Walmart ", OpWord(name), " search: ">> \o e.text

\* requests.exceptions.RequestException and its subclasses
RequestExceptionTypes == {"ConnectionError", "HTTPError", "requests.JSONDecodeError"}

IsRequestException(e) == e.type \in RequestExceptionTypes

\* the subclasses of Exception that the program meets
ExceptionTypes ==
    RequestExceptionTypes \cup {"ValueError", "TypeError", "RuntimeError",
                                "json.JSONDecodeError"}

CatchesValueErrorOnly(e) == e.type = "ValueError"

\* `except Exception as e` in call_tool
Catches(e) == e.type \in ExceptionTypes

StrGeneric(e) == <<"Internal error">>

\* str(e) in call_tool
StrOf(e) == e.text

DispatcherLog(name, e) == <<"Error calling tool ", name, ": ">> \o e.text

----------------------------------------------------------------------------
\* The backend and the callers

NoExc == [type |-> "", text |-> << >>]
NoBody == [indent |-> 0, members |-> << >>]

Member(k, v) == <<k, <<v>> >>

\* the JSON objects the backend answers with
Bodies ==
    { [indent |-> n, members |-> m] :
        n \in {0, 2},
        m \in { << >>,
                << Member("totalResults", "1") >>,
                << Member("totalResults", "1"), Member("items", "2") >>,
                << Member("items", "2"), Member("totalResults", "1") >>,
                << Member("totalResults", "1"), Member("totalResults", "2") >>,
                << Member("items", "1"), Member("totalResults", "1"), Member("items", "2") >> } }

\* requests.get raises (connection), raise_for_status raises (status), or
\* response.json() raises on a 2xx body that is no JSON: a subclass of
\* RequestException in requests >= 2.27, a plain ValueError before
BackendFaults ==
    { [kind |-> "connection", body |-> NoBody,
       exc |-> [type |-> "ConnectionError", text |-> <<"Connection refused">>]],
      [kind |-> "status", body |-> NoBody,
       exc |-> [type |-> "HTTPError", text |-> <<"500 Server Error">>]],
      [kind |-> "undecodable", body |-> NoBody,
       exc |-> [type |-> "requests.JSONDecodeError", text |-> <<"Expecting value">>]],
      [kind |-> "undecodable", body |-> NoBody,
       exc |-> [type |-> "json.JSONDecodeError", text |-> <<"Expecting value">>]] }

Outcomes == { [kind |-> "ok", body |-> b, exc |-> NoExc] : b \in Bodies } \cup BackendFaults

CtxValues == {Unset, Str(""), Str("tokA"), Str("tokB")}
EnvValues == {Unset, Str(""), Str("tokE")}

LimitArgs == {EmptyDict} \cup { "limit" :> v : v \in {I(10), I(20), I(21), I(50), I(51), I(999), S("ten")} }
BogusArgs == {EmptyDict, "bogus" :> S("x")}

ProductArgs ==
    { q @@ l @@ s @@ f @@ b :
        q \in {EmptyDict, "query" :> S("tv")},
        l \in LimitArgs,
        s \in {EmptyDict, "sort" :> S("relevance"), "sort" :> S("price_low")},
        f \in {EmptyDict,
               ("offset" :> I(5)) @@ ("min_price" :> F(1)) @@ ("max_price" :> F(9))
               @@ ("in_stock" :> B(FALSE)) @@ ("category_id" :> S("c7"))},
        b \in BogusArgs }

StoreArgs ==
    { q @@ r @@ l @@ b :
        q \in {EmptyDict, "location" :> S("94105")},
        r \in {EmptyDict, "radius" :> I(5)},
        l \in LimitArgs,
        b \in BogusArgs }

CategoryArgs ==
    { q @@ p @@ l @@ b :
        q \in {EmptyDict, "query" :> S(""), "query" :> S("toys")},
        p \in {EmptyDict, "parent_id" :> S(""), "parent_id" :> S("123")},
        l \in LimitArgs,
        b \in BogusArgs }

UnknownNames == {"walmart_price_check", "product_search"}

\* every invocation the callers may make
Requests ==
    { [name |-> ProductSearch, arguments |-> a, ctx |-> c] : a \in ProductArgs, c \in CtxValues }
    \cup { [name |-> StoreSearch, arguments |-> a, ctx |-> c] : a \in StoreArgs, c \in CtxValues }
    \cup { [name |-> CategorySearch, arguments |-> a, ctx |-> c] : a \in CategoryArgs, c \in CtxValues }
    \cup { [name |-> n, arguments |-> a, ctx |-> c] :
             n \in UnknownNames,
             a \in {EmptyDict, "query" :> S("tv"), "location" :> S("94105")},
             c \in CtxValues }

\* the invocations of the concurrent scenario
ConcurrentRequests ==
    { [name |-> StoreSearch, arguments |-> "location" :> S("94105"), ctx |-> c] :
        c \in {Unset, Str("tokA"), Str("tokB")} }
    \cup { [name |-> CategorySearch, arguments |-> "parent_id" :> S("123"), ctx |-> c] :
             c \in {Str("tokA"), Str("tokB")} }

NoRequest == [name |-> "", arguments |-> EmptyDict, ctx |-> Unset]

----------------------------------------------------------------------------
\* The state

VARIABLES
    inbox,     \* inbox[i]: the invocation i serves: name, arguments, and the
               \* value auth_token_context holds in the context it runs in
    env,       \* WALMART_API_KEY in the environment of the process
    pc,        \* pc[i]: where invocation i stands
    token,     \* token[i]: what get_walmart_client returned, once called
    built,     \* built[i]: the outbound request, once built
    outbox,    \* outbox[i]: the requests invocation i has put on the wire
    outcome,   \* outcome[i]: what the backend did with the request
    caught,    \* caught[i]: the fault an except clause caught, and where
    log,       \* log[i]: the warnings and errors invocation i logged
    returned,  \* returned[i]: the text call_tool returned
    escaped    \* escaped[i]: a fault left call_tool

vars == <<inbox, env, pc, token, built, outbox, outcome, caught, log, returned, escaped>>

\* auth_token_context.get() in invocation i: a ContextVar is read in the
\* context of the task that runs the invocation
ContextGetShared(i) == inbox[1].ctx

ContextGet(i) == inbox[i].ctx

Blank ==
    /\ env \in EnvValues
    /\ token = [i \in Inv |-> << >>]
    /\ built = [i \in Inv |-> << >>]
    /\ outbox = [i \in Inv |-> << >>]
    /\ outcome = [i \in Inv |-> << >>]
    /\ caught = [i \in Inv |-> << >>]
    /\ log = [i \in Inv |-> << >>]
    /\ returned = [i \in Inv |-> << >>]
    /\ escaped = [i \in Inv |-> FALSE]

\* one invocation at a time, any request
Init ==
    /\ \E r \in Requests : inbox = [i \in Inv |-> IF i = 1 THEN r ELSE NoRequest]
    /\ pc = [i \in Inv |-> IF i = 1 THEN "pending" ELSE "idle"]
    /\ Blank

\* every invocation in flight together
InitConcurrent ==
    /\ inbox \in [Inv -> ConcurrentRequests]
    /\ pc = [i \in Inv |-> "pending"]
    /\ Blank

\* the tool returned `result`: call_tool returns json.dumps(result, indent=2)
ToolReturns(i, result, logged, fault) ==
    /\ returned' = [returned EXCEPT ![i] = << Dumps(result) >>]
    /\ log' = [log EXCEPT ![i] = @ \o logged]
    /\ caught' = [caught EXCEPT ![i] = fault]
    /\ pc' = [pc EXCEPT ![i] = "returned"]
    /\ UNCHANGED escaped

\* a fault e reached the try of call_tool
ToolRaises(i, e, logged) ==
    IF Catches(e)
    THEN /\ returned' = [returned EXCEPT ![i] = << Dumps(ErrorDict(StrOf(e))) >>]
         /\ log' = [log EXCEPT ![i] = @ \o logged \o << DispatcherLog(inbox[i].name, e) >>]
         /\ caught' = [caught EXCEPT ![i] = << [by |-> "call_tool", exc |-> e] >>]
         /\ pc' = [pc EXCEPT ![i] = "returned"]
         /\ UNCHANGED escaped
    ELSE /\ escaped' = [escaped EXCEPT ![i] = TRUE]
         /\ log' = [log EXCEPT ![i] = @ \o logged]
         /\ pc' = [pc EXCEPT ![i] = "raised"]
         /\ UNCHANGED <<returned, caught>>

\* call_tool up to the outbound call: the lookup of the name, the binding of
\* the arguments, the credential check and the building of the request
Prepare(i) ==
    /\ pc[i] = "pending"
    /\ LET name == inbox[i].name
           args == inbox[i].arguments
           tok == GetWalmartClient(ContextGet(i), env)
       IN  IF name \notin Registered
           THEN /\ ToolRaises(i, UnknownToolError(name), << >>)
                /\ UNCHANGED <<token, built>>
           ELSE IF BindFault(name, args) # << >>
           THEN /\ ToolRaises(i, BindFault(name, args)[1], << >>)
                /\ UNCHANGED <<token, built>>
           ELSE /\ token' = [token EXCEPT ![i] = << tok >>]
                /\ IF NotToken(tok)
                   THEN /\ ToolReturns(i, ErrorDict(MissingTokenMessage),
                                       (IF tok.set THEN << >> ELSE << ClientWarning >>)
                                       \o << MissingTokenLog >>,
                                       << >>)
                        /\ UNCHANGED built
                   ELSE IF MinFault(LimitOf(name, args)) # << >>
                   THEN /\ ToolRaises(i, MinFault(LimitOf(name, args))[1], << >>)
                        /\ UNCHANGED built
                   ELSE /\ built' = [built EXCEPT ![i] = << BuildRequest(name, args, tok.val) >>]
                        /\ pc' = [pc EXCEPT ![i] = "send"]
                        /\ UNCHANGED <<returned, log, caught, escaped>>
    /\ UNCHANGED <<inbox, env, outbox, outcome>>

\* requests.get(url, headers=headers, params=params): the request leaves
Send(i) ==
    /\ pc[i] = "send"
    /\ outbox' = [outbox EXCEPT ![i] = Append(@, built[i][1])]
    /\ pc' = [pc EXCEPT ![i] = "awaiting"]
    /\ UNCHANGED <<inbox, env, token, built, outcome, caught, log, returned, escaped>>

\* the rest of the tool and of call_tool, once the backend answered with o
Respond(i, o) ==
    /\ pc[i] = "awaiting"
    /\ outcome' = [outcome EXCEPT ![i] = << o >>]
    /\ LET name == inbox[i].name
           args == inbox[i].arguments
       IN  IF o.kind = "ok"
           THEN ToolReturns(i, Loads(o.body), << >>, << >>)
           ELSE IF IsRequestException(o.exc)
           THEN ToolReturns(i, ErrorDict(TransportMessage(name, args, o.exc)),
                            << TransportLog(name, o.exc) >>,
                            << [by |-> "tool", exc |-> o.exc] >>)
           ELSE ToolReturns(i, ErrorDict(UnexpectedMessage(name, o.exc)),
                            << UnexpectedMessage(name, o.exc) >>,
                            << [by |-> "tool", exc |-> o.exc] >>)
    /\ UNCHANGED <<inbox, env, token, built, outbox>>

Next ==
    \E i \in Inv :
        \/ Prepare(i)
        \/ Send(i)
        \/ \E o \in Outcomes : Respond(i, o)

Spec == Init /\ [][Next]_vars

SpecConcurrent == InitConcurrent /\ [][Next]_vars

----------------------------------------------------------------------------
\* What the properties speak of

\* the failure envelope {error: msg}, as the members of the returned text
Envelope(msg) == << <<"error", msg>> >>

ReturnedMembers(i) == returned[i][1].members

ErrorText(i) == ReturnedMembers(i)[1][2]

Empty(o) == ~o.set \/ o.val = ""

\* neither the context of the invocation nor the environment yields a token
NoCredential(i) == Empty(inbox[i].ctx) /\ Empty(env)

\* the argument mapping matches the parameters of the operation
Binds(i) ==
    /\ DOMAIN inbox[i].arguments \subseteq Params(inbox[i].name)
    /\ Required(inbox[i].name) \subseteq DOMAIN inbox[i].arguments

Supplied(i, k) == k \in DOMAIN inbox[i].arguments

SuppliedNonEmpty(i, k) == Supplied(i, k) /\ inbox[i].arguments[k] # S("")

----------------------------------------------------------------------------
\* C1: an invocation that names none of the three registered operations
\* returns {error: "Unknown tool: <name>"} with the requested name, whatever
\* its arguments and credentials, and never puts a request on the wire.
C1_UnknownTool ==
    \A i \in Inv :
        (pc[i] # "idle" /\ inbox[i].name \notin Registered) =>
            /\ outbox[i] = << >>
            /\ pc[i] \in {"pending", "returned"}
            /\ pc[i] = "returned" =>
                   ReturnedMembers(i) = Envelope(<<"Unknown tool: ", inbox[i].name>>)

C1_Witness ==
    \E i \in Inv :
        /\ pc[i] = "returned"
        /\ inbox[i].name \notin Registered
        /\ inbox[i].ctx = Str("tokA")
        /\ Supplied(i, "query")

\* C2 as stated: with no credential, each of the three operations returns
\* exactly {error: "Missing Walmart API token"} and makes no outbound call.
C2_Original ==
    \A i \in Inv :
        (pc[i] = "returned" /\ inbox[i].name \in Registered /\ NoCredential(i)) =>
            /\ ReturnedMembers(i) = Envelope(<<"Missing Walmart API token">>)
            /\ outbox[i] = << >>

\* C2, amended: with no credential, none of the three operations ever makes an
\* outbound call; it returns exactly {error: "Missing Walmart API token"} when
\* the argument mapping matches the parameters of the operation, and the text
\* of the TypeError of the call when it does not.
C2_MissingToken ==
    \A i \in Inv :
        (pc[i] # "idle" /\ inbox[i].name \in Registered /\ NoCredential(i)) =>
            /\ outbox[i] = << >>
            /\ pc[i] \in {"pending", "returned"}
            /\ (pc[i] = "returned" /\ Binds(i)) =>
                   /\ ReturnedMembers(i) = Envelope(<<"Missing Walmart API token">>)
                   /\ token[i] # << >>
            /\ (pc[i] = "returned" /\ ~Binds(i)) =>
                   /\ caught[i] # << >>
                   /\ caught[i][1].exc.type = "TypeError"
                   /\ ReturnedMembers(i) = Envelope(caught[i][1].exc.text)

C2_Witness ==
    \E i \in Inv :
        /\ pc[i] = "returned"
        /\ inbox[i].name = ProductSearch
        /\ NoCredential(i)
        /\ Binds(i)
        /\ ReturnedMembers(i) = Envelope(<<"Missing Walmart API token">>)

\* C3: of two invocations in flight together that carry different non-empty
\* tokens in their contexts, each sends its own token in the access-token
\* header of its request and never the token of the other.
C3_OwnToken ==
    \A i \in Inv : \A j \in Inv \ {i} :
        (/\ ~Empty(inbox[i].ctx)
         /\ ~Empty(inbox[j].ctx)
         /\ inbox[i].ctx # inbox[j].ctx) =>
            /\ \A k \in 1..Len(outbox[i]) :
                   /\ outbox[i][k].headers.AccessToken = inbox[i].ctx.val
                   /\ outbox[i][k].headers.AccessToken # inbox[j].ctx.val
            /\ \A k \in 1..Len(built[i]) :
                   built[i][k].headers.AccessToken = inbox[i].ctx.val

C3_Witness ==
    \E i \in Inv : \E j \in Inv \ {i} :
        /\ inbox[i].ctx = Str("tokA")
        /\ inbox[j].ctx = Str("tokB")
        /\ pc[i] = "awaiting"
        /\ pc[j] = "awaiting"
        /\ outbox[i][1].headers.AccessToken = "tokA"
        /\ outbox[j][1].headers.AccessToken = "tokB"

\* C4: no fault leaves call_tool: an invocation that has not returned can
\* take its next step, and one that has ended has returned a text with an
\* envelope in it.
C4_AlwaysReturns ==
    \A i \in Inv :
        pc[i] # "idle" =>
            /\ ~escaped[i]
            /\ pc[i] # "raised"
            /\ pc[i] = "returned" => Len(returned[i]) = 1
            /\ pc[i] # "returned" =>
                   ENABLED (Prepare(i) \/ Send(i) \/ \E o \in Outcomes : Respond(i, o))

C4_Witness ==
    \E i \in Inv :
        /\ pc[i] = "returned"
        /\ caught[i] # << >>
        /\ caught[i][1].by = "call_tool"
        /\ caught[i][1].exc.type = "TypeError"
        /\ Len(returned[i]) = 1

\* the fault caught in invocation i is none of unknown operation, missing
\* credential and transport fault
UnexpectedFault(i) ==
    /\ pc[i] = "returned"
    /\ inbox[i].name \in Registered
    /\ caught[i] # << >>
    /\ ~IsRequestException(caught[i][1].exc)

\* C5 as stated: after an unexpected fault the error string returned does not
\* contain the detail text of the fault.
C5_Original ==
    \A i \in Inv :
        UnexpectedFault(i) => ~Contains(ErrorText(i), caught[i][1].exc.text)

\* C5, amended: after an unexpected fault the error string returned carries
\* the detail text of the fault: it is str(e) for a fault caught by call_tool,
\* and "Unexpected error in Walmart <operation> search: " followed by str(e)
\* for a fault caught in the tool; the detail is written to the log as well.
C5_DetailReturned ==
    \A i \in Inv :
        UnexpectedFault(i) =>
            LET e == caught[i][1].exc
            IN  /\ ReturnedMembers(i) =
                       Envelope(IF caught[i][1].by = "call_tool"
                                THEN e.text
                                ELSE <<"Unexpected error in Walmart ",
                                       OpWord(inbox[i].name), " search: ">> \o e.text)
                /\ Contains(ErrorText(i), e.text)
                /\ \E k \in 1..Len(log[i]) : Contains(log[i][k], e.text)

C5_Witness ==
    \E i \in Inv :
        /\ UnexpectedFault(i)
        /\ caught[i][1].by = "call_tool"
        /\ ~Binds(i)
        /\ Contains(ErrorText(i), caught[i][1].exc.text)

\* the documented cap of the limit of each operation
CapOf(name) == IF name = StoreSearch THEN 20 ELSE 50

IntLimit(i) == Supplied(i, "limit") /\ inbox[i].arguments["limit"].t = "int"

\* C6: when the credential resolves, the limit sent is min(limit, cap), with
\* cap 50, 20 and 50 for product, store and category search; a limit above the
\* cap is no error and the limit sent never exceeds the cap.
C6_LimitClamped ==
    \A i \in Inv :
        (inbox[i].name \in Registered /\ IntLimit(i)) =>
            LET l == inbox[i].arguments["limit"].n
                cap == CapOf(inbox[i].name)
            IN  /\ \A k \in 1..Len(built[i]) :
                       /\ built[i][k].params["limit"] = I(IF l <= cap THEN l ELSE cap)
                       /\ built[i][k].params["limit"].n <= cap
                /\ \A k \in 1..Len(outbox[i]) :
                       /\ outbox[i][k].params["limit"] = I(IF l <= cap THEN l ELSE cap)
                       /\ outbox[i][k].params["limit"].n <= cap
                /\ (pc[i] \notin {"idle", "pending"} /\ Binds(i) /\ token[i] # << >>
                    /\ ~Empty(token[i][1])) => Len(built[i]) = 1

C6_Witness ==
    \E i \in Inv :
        /\ inbox[i].name = StoreSearch
        /\ IntLimit(i)
        /\ inbox[i].arguments["limit"].n = 999
        /\ Len(outbox[i]) = 1
        /\ outbox[i][1].params["limit"] = I(20)

TransportFault(i) ==
    /\ pc[i] = "returned"
    /\ outcome[i] # << >>
    /\ outcome[i][1].kind \in {"connection", "status"}

\* the text that names what the operation searched for
TargetText(i) ==
    IF inbox[i].name = ProductSearch
    THEN <<"Could not complete Walmart product search for query: ",
           inbox[i].arguments["query"].s>>
    ELSE IF inbox[i].name = StoreSearch
    THEN <<"Could not complete Walmart store search for location: ",
           inbox[i].arguments["location"].s>>
    ELSE <<"Could not complete Walmart category search">>

\* C7: an invocation makes at most one outbound call; when that call ends in
\* a connection error or a non-2xx status, the invocation returns the failure
\* envelope with the text of its operation that names the search target, and
\* not the text of the exception.
C7_TransportFault ==
    \A i \in Inv :
        /\ Len(outbox[i]) <= 1
        /\ TransportFault(i) =>
               /\ ReturnedMembers(i) = Envelope(TargetText(i))
               /\ ~Contains(ErrorText(i), outcome[i][1].exc.text)
               /\ Len(outbox[i]) = 1

C7_Witness ==
    \E i \in Inv :
        /\ TransportFault(i)
        /\ outcome[i][1].kind = "status"
        /\ inbox[i].name = ProductSearch
        /\ ErrorText(i) = <<"Could not complete Walmart product search for query: ", "tv">>

Succeeded(i) ==
    /\ pc[i] = "returned"
    /\ outcome[i] # << >>
    /\ outcome[i][1].kind = "ok"

Names(members) == { members[k][1] : k \in 1..Len(members) }

DistinctNames(members) == Cardinality(Names(members)) = Len(members)

\* the value of the last member of that name
LastValue(members, name) ==
    LET last == CHOOSE k \in 1..Len(members) :
                    /\ members[k][1] = name
                    /\ \A m \in (k + 1)..Len(members) : members[m][1] # name
    IN  members[last][2]

C9_Resolution ==
    \A i \in Inv :
        token[i] # << >> =>
            LET c == inbox[i].ctx
                tok == token[i][1]
            IN  /\ ~Empty(c) => tok = Str(c.val)
                /\ (Empty(c) /\ ~Empty(env)) => tok = Str(env.val)
                /\ Empty(tok) <=> (Empty(c) /\ Empty(env))

C9_Witness ==
    \E i \in Inv :
        /\ token[i] = << Str("tokA") >>
        /\ inbox[i].ctx = Str("tokA")
        /\ env = Str("tokE")

CategoryBuilt(i) == inbox[i].name = CategorySearch /\ built[i] # << >>

ByParentUrl(i) ==
    <<"https://api.walmart.com/v3/items/categories/", inbox[i].arguments["parent_id"].s>>

FlatUrl == <<"https://api.walmart.com/v3/items/categories">>

\* C10 as stated: category search targets the by-parent endpoint whenever
\* parent_id is supplied and the flat endpoint otherwise, and a supplied query
\* is sent as a query parameter, never in the path.
C10_Original ==
    \A i \in Inv :
        CategoryBuilt(i) =>
            LET r == built[i][1]
            IN  /\ Supplied(i, "parent_id") => r.url = ByParentUrl(i)
                /\ ~Supplied(i, "parent_id") => r.url = FlatUrl
                /\ Supplied(i, "query") =>
                       /\ "query" \in DOMAIN r.params
                       /\ r.params["query"] = inbox[i].arguments["query"]

\* C10, amended: category search targets the by-parent endpoint, with the
\* parent id in the path, whenever a non-empty parent_id is supplied, and the
\* flat endpoint whenever parent_id is not supplied or empty; a non-empty
\* query is sent as a query parameter and is never part of the path, and an
\* empty or absent query is not sent.
C10_Endpoint ==
    \A i \in Inv :
        CategoryBuilt(i) =>
            LET r == built[i][1]
            IN  /\ SuppliedNonEmpty(i, "parent_id") => r.url = ByParentUrl(i)
                /\ ~SuppliedNonEmpty(i, "parent_id") => r.url = FlatUrl
                /\ SuppliedNonEmpty(i, "query") =>
                       /\ "query" \in DOMAIN r.params
                       /\ r.params["query"] = inbox[i].arguments["query"]
                       /\ ~Contains(r.url, <<inbox[i].arguments["query"].s>>)
                /\ ~SuppliedNonEmpty(i, "query") => "query" \notin DOMAIN r.params
                /\ \A k \in 1..Len(outbox[i]) : outbox[i][k] = r

C10_Witness ==
    \E i \in Inv :
        /\ CategoryBuilt(i)
        /\ Len(outbox[i]) = 1
        /\ SuppliedNonEmpty(i, "parent_id")
        /\ SuppliedNonEmpty(i, "query")
        /\ inbox[i].arguments["parent_id"] = S("123")
        /\ inbox[i].arguments["query"] = S("toys")
        /\ outbox[i][1].url = ByParentUrl(i)

====
